---- MODULE Spec2Model ----
(***************************************************************************)
(* State-machine model of the Translog/TPR-DB file patching scripts:       *)
(*   atag_fix.py          (AtagFixer: remap word alignments)               *)
(*   fix_tokenization.py  (renumber id/cur of W elements, verify cursor)   *)
(*   decrease_segid.py    (shift segId attributes line by line)            *)
(*   add_lang_tag.py      (insert a Languages element)                     *)
(* Each script is an independent program; each has its own specification   *)
(* over its own variables.                                                 *)
(***************************************************************************)
EXTENDS Integers, Sequences, FiniteSets, TLC

VARIABLES
    \* ---- atag_fix.py ----
    fsorig,             \* original directory: identifier -> [src, tgt] (W elements)
    fsman,              \* manual directory:   identifier -> [src, tgt, atag]
    sents_orig,         \* AtagFixer.sents_orig: identifier -> items of {segId: {src, tgt}}
    sents_man,          \* AtagFixer.sents_man
    sent_aligns,        \* AtagFixer.sent_aligns: identifier -> items of {src segId: tgt segId}
    starts,             \* how many more times the user will start the script
    apc,                \* position in fix_atag_alignments
    run,                \* how many times the script has been started
    todo,               \* identifiers of sents_orig still to iterate
    segs,               \* segment ids of the current identifier still to iterate
    valid_src_segs,
    n_processed,
    all_valid,
    has_error,
    segment_not_found,
    printed,            \* console output of the current run
    atag_start,         \* the manual atag files as they were when the current run started
    written,            \* identifiers whose atag file the current run wrote (line 241)
    fixed,              \* identifiers whose align elements an earlier run changed
    \* ---- fix_tokenization.py ----
    orig_file,          \* the original .src/.tgt file: its W elements
    man_file,           \* the manually edited file on disk
    man_given,          \* the manually edited file as it was given to main
    tpc,                \* position in main's loop body
    tok_tree,           \* process_man_file: the parsed tree's W elements
    widx,               \* process_man_file: how many W elements the loop has done
    curr_cursor,
    curr_id,
    char_diff,
    valid,              \* main: what verify_cursor returned
    report,             \* what verify_cursor printed
    \* ---- decrease_segid.py ----
    fin_lines,          \* the file fin on disk: its lines
    bak,                \* the backup fin.bak (<<>> before it is made)
    start_idx,
    end_idx,            \* <<>> for None, <<n>> for --end_idx n
    do_increase,
    mod_lines,
    spc,                \* position in main
    indices_present,    \* what verify_order_lines printed
    \* ---- add_lang_tag.py ----
    xml_files,          \* the .xml files under fin: [nested, xml]
    xml_given,          \* the files as they were when main was called
    fin_kind,           \* what fin names: "dir", "file" or neither
    src_lang,
    tgt_lang,
    task,
    recursive,
    files,              \* main: indices of the files still to process
    lpc                 \* position in main

atagVars == <<fsorig, fsman, sents_orig, sents_man, sent_aligns, starts, apc, run, todo, segs, valid_src_segs,
              n_processed, all_valid, has_error, segment_not_found, printed, atag_start,
              written, fixed>>

tokVars == <<orig_file, man_file, man_given, tpc, tok_tree, widx, curr_cursor, curr_id,
             char_diff, valid, report>>

segVars == <<fin_lines, bak, start_idx, end_idx, do_increase, mod_lines, spc, indices_present>>

langVars == <<xml_files, xml_given, fin_kind, src_lang, tgt_lang, task, recursive, files, lpc>>

vars == <<atagVars, tokVars, segVars, langVars>>

\* What a script leaves alone: the variables of the other scripts.
notAtag == <<tokVars, segVars, langVars>>
notTok == <<atagVars, segVars, langVars>>
notSeg == <<atagVars, tokVars, langVars>>
notLang == <<atagVars, tokVars, segVars>>

\* ------------------------------------------------------------------ bounds

\* At most this many segments of a file pair deviate from "copied unchanged".
MaxEdits == 1
\* At most this many align elements in an atag file.
MaxAligns == 2
\* At most this many W elements in a manually edited file.
MaxWords == 3
\* The cur attribute of the original file's last word is at most this.
MaxOrigCur == 6
\* At most this many lines in a file given to decrease_segid.
MaxLines == 2
\* At most this many .xml files under the input of add_lang_tag.
MaxFiles == 2

\* --------------------------------------------------------- sequence helpers

Range(s) == {s[i] : i \in 1..Len(s)}

RECURSIVE SetToSortedSeq(_)
SetToSortedSeq(S) ==
    IF S = {} THEN <<>>
    ELSE LET m == CHOOSE x \in S : \A y \in S : x[1] < y[1] \/ (x[1] = y[1] /\ x[2] <= y[2])
         IN <<m>> \o SetToSortedSeq(S \ {m})

\* Python dict built by successive assignment d[k] = v, kept as its item list:
\* a key keeps the place of its first insertion and the value of its last.
DictKeys(items) == {items[i][1] : i \in 1..Len(items)}

DictGet(items, k) ==
    LET last == CHOOSE i \in 1..Len(items) :
                    /\ items[i][1] = k
                    /\ \A j \in (i+1)..Len(items) : items[j][1] # k
    IN items[last][2]

RECURSIVE DictSet(_, _, _)
DictSet(items, k, v) ==
    IF items = <<>> THEN << <<k, v>> >>
    ELSE IF Head(items)[1] = k THEN << <<k, v>> >> \o Tail(items)
    ELSE <<Head(items)>> \o DictSet(Tail(items), k, v)

RECURSIVE DictFrom(_, _)
DictFrom(pairs, acc) ==
    IF pairs = <<>> THEN acc
    ELSE DictFrom(Tail(pairs), DictSet(acc, Head(pairs)[1], Head(pairs)[2]))

\* zip(a, b): pairs up to the shorter length
Min(a, b) == IF a < b THEN a ELSE b
Zip(a, b) == [i \in 1..Min(Len(a), Len(b)) |-> <<a[i], b[i]>>]

\* ======================================================================
\*                              atag_fix.py
\* ======================================================================

\* ------------------------------------------------------------ input files

\* Identifiers (file stems) of the original directory, in the order
\* sents_orig iterates them; the manual directory holds the first only
\* ("Only want to run it over a few files that you edited? Copy those files
\* to a separate directory").
OrigIdentifiers == <<"P01_T01", "P02_T01">>
ManIdentifiers == {"P01_T01"}

SegIds == {1, 2}
Directions == {"src", "tgt"}

\* How the manual copy of a segment deviates from the original one.
\*   same    copied unchanged
\*   split   re-tokenized: one word more
\*   retext  same number of words, the text of the first differs
\*   noman   the segment's words are missing from the manual file
\*   absent  the segment is in neither file (e.g. it was not translated)
Edits == {"same", "split", "retext", "noman", "absent"}

\* Words of a segment in the original corpus.
BaseCount(dir, seg) == IF (dir = "src") = (seg = 1) THEN 2 ELSE 1

OrigCount(dir, seg, e) == IF e = "absent" THEN 0 ELSE BaseCount(dir, seg)

ManCount(dir, seg, e) ==
    CASE e \in {"absent", "noman"} -> 0
      [] e = "split" -> BaseCount(dir, seg) + 1
      [] OTHER -> BaseCount(dir, seg)

\* A W element: <W id=".." segId="..">text</W>
W(id, segId, text) == [id |-> id, segId |-> segId, text |-> text]

\* A .src/.tgt file: the W elements of segment 1, then those of segment 2,
\* ids running 1, 2, 3, ... through the file (fix_tokenization.py's output).
WordsOf(n1, n2, firstText1, firstText2) ==
    [i \in 1..(n1 + n2) |->
        IF i <= n1 THEN W(i, 1, IF i = 1 THEN firstText1 ELSE "w")
        ELSE W(i, 2, IF i = n1 + 1 THEN firstText2 ELSE "w")]

OrigFile(dir, edit) ==
    WordsOf(OrigCount(dir, 1, edit[<<dir, 1>>]), OrigCount(dir, 2, edit[<<dir, 2>>]), "w", "w")

ManFile(dir, edit) ==
    WordsOf(ManCount(dir, 1, edit[<<dir, 1>>]), ManCount(dir, 2, edit[<<dir, 2>>]),
            IF edit[<<dir, 1>>] = "retext" THEN "v" ELSE "w",
            IF edit[<<dir, 2>>] = "retext" THEN "v" ELSE "w")

EditFunctions ==
    {e \in [Directions \X SegIds -> Edits] :
        Cardinality({x \in Directions \X SegIds : e[x] # "same"}) <= MaxEdits}

\* Elements of an atag file, children of its root. uid is the element's
\* identity (its place in the file first read), carried along to follow one
\* element through rewrites. Attributes an element lacks are <<>>.
AlignFileEl(uid, suffix, key) ==
    [tag |-> "alignFile", uid |-> uid, href |-> suffix, key |-> key,
     src |-> <<>>, tgt |-> <<>>, in |-> <<>>, out |-> <<>>]
SAlignEl(uid, s, t) ==
    [tag |-> "salign", uid |-> uid, href |-> <<>>, key |-> <<>>,
     src |-> <<s>>, tgt |-> <<t>>, in |-> <<>>, out |-> <<>>]
\* in="b3" is kept as <<"b", 3>>: the one-character key, then the word id.
AlignEl(uid, in, out) ==
    [tag |-> "align", uid |-> uid, href |-> <<>>, key |-> <<>>,
     src |-> <<>>, tgt |-> <<>>, in |-> in, out |-> out]

SrcKey == "a"
TgtKey == "b"

\* The sentence alignments an atag file may hold: 1-1 and 2-2, crossed, or
\* none for segment 2.
SAlignLists == { << <<1, 1>>, <<2, 2>> >>, << <<1, 2>>, <<2, 1>> >>, << <<1, 1>> >> }

\* Word links (source word id, target word id) an align element may hold.
WordIds == 1..3
AlignSets == {S \in SUBSET (WordIds \X WordIds) : Cardinality(S) <= MaxAligns}

AtagFile(saligns, aligns) ==
    LET links == SetToSortedSeq(aligns)
    IN  << AlignFileEl(1, "src", SrcKey), AlignFileEl(2, "tgt", TgtKey) >>
        \o [i \in 1..Len(saligns) |-> SAlignEl(2 + i, saligns[i][1], saligns[i][2])]
        \o [i \in 1..Len(links) |->
                AlignEl(2 + Len(saligns) + i, <<TgtKey, links[i][2]>>, <<SrcKey, links[i][1]>>)]

NoEdit == [x \in Directions \X SegIds |-> "same"]

\* ------------------------------------------------------------- AtagFixer

\* _extract_sents: {segId: tree of the W elements with that segId}, kept as
\* the dict's item list (keys in the order they first occur in the file).
RECURSIVE _extract_sents(_, _)
_extract_sents(words, sents) ==
    IF words = <<>> THEN sents
    ELSE LET word == Head(words)
             seg_id == word.segId
             tree == IF seg_id \in DictKeys(sents) THEN DictGet(sents, seg_id) ELSE <<>>
         IN _extract_sents(Tail(words), DictSet(sents, seg_id, Append(tree, word)))

\* extract_sents for one identifier: {segId: {"src": tree, "tgt": tree}};
\* a direction without the segment has no key, written here as the tree <<>>
\* (a tree that exists holds at least one W).
RECURSIVE MergeTgt(_, _)
MergeTgt(tgt_items, res) ==
    IF tgt_items = <<>> THEN res
    ELSE LET seg_id == Head(tgt_items)[1]
             sent == Head(tgt_items)[2]
             old == IF seg_id \in DictKeys(res) THEN DictGet(res, seg_id)
                    ELSE [src |-> <<>>, tgt |-> <<>>]
         IN MergeTgt(Tail(tgt_items), DictSet(res, seg_id, [old EXCEPT !.tgt = sent]))

extract_sents(type_d) ==
    LET src_sents == _extract_sents(type_d.src, <<>>)
        tgt_sents == _extract_sents(type_d.tgt, <<>>)
        res == [i \in 1..Len(src_sents) |->
                    <<src_sents[i][1], [src |-> src_sents[i][2], tgt |-> <<>>]>>]
    IN MergeTgt(tgt_sents, res)

\* d[seg_id][direction] raises KeyError
HasTree(sents, seg_id, direction) ==
    /\ seg_id \in DictKeys(sents)
    /\ DictGet(sents, seg_id)[direction] # <<>>

Tree(sents, seg_id, direction) == DictGet(sents, seg_id)[direction]

\* get_sent_align for one identifier: {el.get("src"): el.get("tgt")} over the
\* salign elements of the manual atag file.
get_sent_align(atag) ==
    LET salign == SelectSeq(atag, LAMBDA el : el.tag = "salign")
    IN DictFrom([i \in 1..Len(salign) |-> <<salign[i].src[1], salign[i].tgt[1]>>], <<>>)

\* (mutant) the texts are not compared
elements_equal_len_only(e1, e2) == Len(e1) = Len(e2)

\* elements_equal on two sentence trees: the roots have no text, so the
\* trees are equal when they hold as many W elements with the same texts
\* (a W has no children).
elements_equal(e1, e2) ==
    /\ Len(e1) = Len(e2)
    /\ \A i \in 1..Min(Len(e1), Len(e2)) : e1[i].text = e2[i].text

\* (mutant) the original ids are kept
orig_man_mapping_keep(identifier, seg_id, direction) ==
    LET orig_tree == Tree(sents_orig[identifier], seg_id, direction)
    IN DictFrom([i \in 1..Len(orig_tree) |-> <<orig_tree[i].id, orig_tree[i].id>>], <<>>)

\* orig_man_mapping: {orig id: man id} by position, as the dict's item list.
orig_man_mapping(identifier, seg_id, direction) ==
    LET orig_tree == Tree(sents_orig[identifier], seg_id, direction)
        man_tree == Tree(sents_man[identifier], seg_id, direction)
        z == Zip(orig_tree, man_tree)
    IN DictFrom([i \in 1..Len(z) |-> <<z[i][1].id, z[i][2].id>>], <<>>)

\* ------------------------------------------------------------ update_atag

\* a_keyfiles: {suffix of href: key} over the alignFile elements
a_keyfiles(tree) ==
    LET align_keys == SelectSeq(tree, LAMBDA el : el.tag = "alignFile")
    IN DictFrom([i \in 1..Len(align_keys) |-> <<align_keys[i].href, align_keys[i].key>>], <<>>)

\* list.remove(el): the child that is this very element
RemoveEl(tree, el) == SelectSeq(tree, LAMBDA x : x.uid # el.uid)

\* int(node.get("in", "b0")[1:]): the id after the key, 0 without the attribute
SortInt(attr) == IF attr = <<>> THEN 0 ELSE attr[2]

KeyLeq(x, y) ==
    \/ SortInt(x.in) < SortInt(y.in)
    \/ SortInt(x.in) = SortInt(y.in) /\ SortInt(x.out) <= SortInt(y.out)

\* sorted(...): stable, by (in, out)
RECURSIVE InsertSorted(_, _)
InsertSorted(sorted, el) ==
    IF sorted = <<>> THEN <<el>>
    ELSE IF KeyLeq(Head(sorted), el) THEN <<Head(sorted)>> \o InsertSorted(Tail(sorted), el)
    ELSE <<el>> \o sorted

RECURSIVE Sorted(_, _)
Sorted(els, acc) ==
    IF els = <<>> THEN acc ELSE Sorted(Tail(els), InsertSorted(acc, Head(els)))

\* Lines 219-234, for one element found by the query: set out and in, append
\* it to valid_tree and remove it from tree; a KeyError sets has_error and
\* the function returns at once.
RemapEl(st, el, man_src_token_idx, tgt_map, keys) ==
    LET prev_out == el.in[2]
    IN  IF prev_out \notin DictKeys(tgt_map)
        THEN [st EXCEPT !.has_error = TRUE]
        ELSE LET new == [el EXCEPT !.out = <<DictGet(keys, "src"), man_src_token_idx>>,
                                   !.in = <<DictGet(keys, "tgt"), DictGet(tgt_map, prev_out)>>]
             IN [st EXCEPT !.valid_tree = Append(@, new),
                           !.tree = RemoveEl(@, el)]

RECURSIVE RemapEls(_, _, _, _, _)
RemapEls(st, els, man_src_token_idx, tgt_map, keys) ==
    IF els = <<>> \/ st.has_error THEN st
    ELSE RemapEls(RemapEl(st, Head(els), man_src_token_idx, tgt_map, keys),
                  Tail(els), man_src_token_idx, tgt_map, keys)

\* Lines 216-234: the source tokens of one segment pair
RECURSIVE RemapTokens(_, _, _, _)
RemapTokens(st, src_items, tgt_map, keys) ==
    IF src_items = <<>> \/ st.has_error THEN st
    ELSE LET orig_src_token_idx == Head(src_items)[1]
             src_xml_id == <<DictGet(keys, "src"), orig_src_token_idx>>
             found == SelectSeq(st.tree, LAMBDA el : el.tag = "align" /\ el.out = src_xml_id)
         IN RemapTokens(RemapEls(st, found, Head(src_items)[2], tgt_map, keys),
                        Tail(src_items), tgt_map, keys)

\* Lines 210-234: the valid segment pairs
RECURSIVE RemapSegs(_, _, _, _)
RemapSegs(st, identifier, valid_segs, keys) ==
    IF valid_segs = <<>> \/ st.has_error THEN st
    ELSE LET src_seg_id == Head(valid_segs)
             tgt_seg_id == DictGet(sent_aligns[identifier], src_seg_id)
             idx_src == orig_man_mapping(identifier, src_seg_id, "src")
             idx_tgt == orig_man_mapping(identifier, tgt_seg_id, "tgt")
         IN RemapSegs(RemapTokens(st, idx_src, idx_tgt, keys),
                      identifier, Tail(valid_segs), keys)

\* (mutant) the tree is written before the error is looked at
update_atag_write_first(identifier, valid_segs) ==
    LET tree == fsman[identifier].atag
        valid_tree == SelectSeq(tree, LAMBDA el : el.tag # "align")
        st == RemapSegs([tree |-> tree, valid_tree |-> valid_tree, has_error |-> FALSE],
                        identifier, valid_segs, a_keyfiles(tree))
    IN [has_error |-> st.has_error, file |-> Sorted(st.valid_tree, <<>>)]

\* update_atag: [has_error, file]: whether it reports an error, and the atag
\* file on disk when it returns.
update_atag(identifier, valid_segs) ==
    LET tree == fsman[identifier].atag
        valid_tree == SelectSeq(tree, LAMBDA el : el.tag # "align")
        st == RemapSegs([tree |-> tree, valid_tree |-> valid_tree, has_error |-> FALSE],
                        identifier, valid_segs, a_keyfiles(tree))
    IN  IF st.has_error
        THEN [has_error |-> TRUE, file |-> tree]
        ELSE [has_error |-> FALSE, file |-> Sorted(st.valid_tree, <<>>)]

\* ---------------------------------------------------- fix_atag_alignments

AtagFiles ==
    /\ \E edit \in EditFunctions, saligns \in SAlignLists, aligns \in AlignSets :
        /\ fsorig = [i \in Range(OrigIdentifiers) |->
                        IF i \in ManIdentifiers
                        THEN [src |-> OrigFile("src", edit), tgt |-> OrigFile("tgt", edit)]
                        ELSE [src |-> OrigFile("src", NoEdit), tgt |-> OrigFile("tgt", NoEdit)]]
        /\ fsman = [i \in ManIdentifiers |->
                        [src |-> ManFile("src", edit), tgt |-> ManFile("tgt", edit),
                         atag |-> AtagFile(saligns, aligns)]]
    /\ sents_orig = <<>>
    /\ sents_man = <<>>
    /\ sent_aligns = <<>>
    /\ apc = "idle"
    /\ run = 0
    /\ todo = <<>>
    /\ segs = <<>>
    /\ valid_src_segs = <<>>
    /\ n_processed = 0
    /\ all_valid = TRUE
    /\ has_error = FALSE
    /\ segment_not_found = FALSE
    /\ printed = <<>>
    /\ atag_start = <<>>
    /\ written = {}
    /\ fixed = {}

\* The script is run once on the two directories.
AtagOnce == AtagFiles /\ starts = 1

\* The script is run, and then once more on the files it left.
AtagTwice == AtagFiles /\ starts = 2

\* Some align element of the file has another in or out than it had.
Remapped(before, after) ==
    \E i \in 1..Len(before), j \in 1..Len(after) :
        /\ before[i].uid = after[j].uid
        /\ before[i] # after[j]

\* The script is started: from_dirs, __init__ (lines 13-21) and the head of
\* fix_atag_alignments (lines 87-90).
Construct ==
    /\ UNCHANGED notAtag
    /\ apc \in {"idle", "done", "crashed"}
    /\ starts > 0
    /\ starts' = starts - 1
    /\ run' = run + 1
    /\ sents_orig' = [i \in DOMAIN fsorig |-> extract_sents(fsorig[i])]
    /\ sents_man' = [i \in DOMAIN fsman |-> extract_sents(fsman[i])]
    /\ sent_aligns' = [i \in DOMAIN fsman |-> get_sent_align(fsman[i].atag)]
    /\ atag_start' = [i \in DOMAIN fsman |-> fsman[i].atag]
    /\ written' = {}
    /\ fixed' = fixed \cup {i \in written : Remapped(atag_start[i], fsman[i].atag)}
    /\ todo' = OrigIdentifiers
    /\ segs' = <<>>
    /\ valid_src_segs' = <<>>
    /\ n_processed' = 0
    /\ all_valid' = TRUE
    /\ has_error' = FALSE
    /\ segment_not_found' = FALSE
    /\ printed' = <<>>
    /\ apc' = "files"
    /\ UNCHANGED <<fsorig, fsman>>

\* Lines 91-96
SkipFile ==
    /\ UNCHANGED notAtag
    /\ apc = "files" /\ todo # <<>>
    /\ Head(todo) \notin DOMAIN fsman
    /\ printed' = Append(printed, <<"not found in manual correction", Head(todo)>>)
    /\ todo' = Tail(todo)
    /\ UNCHANGED <<fsorig, fsman, sents_orig, sents_man, sent_aligns, starts, apc, run, segs, valid_src_segs,
                   n_processed, all_valid, has_error, segment_not_found, atag_start,
                   written, fixed>>

BeginFile ==
    /\ UNCHANGED notAtag
    /\ apc = "files" /\ todo # <<>>
    /\ Head(todo) \in DOMAIN fsman
    /\ valid_src_segs' = <<>>
    /\ segs' = [i \in 1..Len(sents_orig[Head(todo)]) |-> sents_orig[Head(todo)][i][1]]
    /\ apc' = "segments"
    /\ UNCHANGED <<fsorig, fsman, sents_orig, sents_man, sent_aligns, starts, run, todo, n_processed, all_valid,
                   has_error, segment_not_found, printed, atag_start, written, fixed>>

\* Which of lines 98-125 one pass of the segment loop ends at.
SegmentOutcome(identifier, src_seg_id) ==
    LET so == sents_orig[identifier]
        sm == sents_man[identifier]
        tgt_seg_id == DictGet(sent_aligns[identifier], src_seg_id)
    IN  IF ~HasTree(so, src_seg_id, "src") THEN "warning2src"
        ELSE IF ~HasTree(sm, src_seg_id, "src") THEN "KeyError"
        ELSE IF src_seg_id \notin DictKeys(sent_aligns[identifier]) THEN "KeyError"
        ELSE IF ~HasTree(so, tgt_seg_id, "tgt") THEN "warning2tgt"
        ELSE IF ~HasTree(sm, tgt_seg_id, "tgt") THEN "KeyError"
        ELSE IF /\ elements_equal(Tree(so, src_seg_id, "src"), Tree(sm, src_seg_id, "src"))
                /\ elements_equal(Tree(so, tgt_seg_id, "tgt"), Tree(sm, tgt_seg_id, "tgt"))
             THEN "valid"
        ELSE "warning1"

SegFrame == <<fsorig, fsman, sents_orig, sents_man, sent_aligns, starts, run, todo, n_processed, has_error, atag_start,
             written, fixed>>

\* Lines 98-104 and 110-116: the segment is not in the original file
SegmentNotFound ==
    /\ UNCHANGED notAtag
    /\ apc = "segments" /\ segs # <<>>
    /\ LET out == SegmentOutcome(Head(todo), Head(segs))
       IN /\ out \in {"warning2src", "warning2tgt"}
          /\ printed' = Append(printed,
                <<"WARNING 2", Head(todo), Head(segs), IF out = "warning2src" THEN "src" ELSE "tgt">>)
    /\ segment_not_found' = TRUE
    /\ segs' = Tail(segs)
    /\ UNCHANGED <<SegFrame, apc, valid_src_segs, all_valid>>

\* Lines 106, 108, 118: a lookup outside the try blocks raises KeyError
SegmentKeyError ==
    /\ UNCHANGED notAtag
    /\ apc = "segments" /\ segs # <<>>
    /\ SegmentOutcome(Head(todo), Head(segs)) = "KeyError"
    /\ apc' = "crashed"
    /\ UNCHANGED <<SegFrame, segs, valid_src_segs, all_valid, segment_not_found, printed>>

\* Lines 120-122
SegmentValid ==
    /\ UNCHANGED notAtag
    /\ apc = "segments" /\ segs # <<>>
    /\ SegmentOutcome(Head(todo), Head(segs)) = "valid"
    /\ valid_src_segs' = Append(valid_src_segs, Head(segs))
    /\ segs' = Tail(segs)
    /\ UNCHANGED <<SegFrame, apc, all_valid, segment_not_found, printed>>

\* Lines 123-125
SegmentNotIdentical ==
    /\ UNCHANGED notAtag
    /\ apc = "segments" /\ segs # <<>>
    /\ SegmentOutcome(Head(todo), Head(segs)) = "warning1"
    /\ printed' = Append(printed, <<"WARNING 1", Head(todo), Head(segs)>>)
    /\ all_valid' = FALSE
    /\ segs' = Tail(segs)
    /\ UNCHANGED <<SegFrame, apc, valid_src_segs, segment_not_found>>

\* Lines 127-131, update_atag included
EndFile ==
    /\ UNCHANGED notAtag
    /\ apc = "segments" /\ segs = <<>>
    /\ IF valid_src_segs # <<>>
       THEN LET r == update_atag(Head(todo), valid_src_segs)
            IN /\ fsman' = [fsman EXCEPT ![Head(todo)].atag = r.file]
               /\ has_error' = (has_error \/ r.has_error)
               /\ printed' = IF r.has_error
                             THEN Append(printed, <<"POSSIBLE ERROR", Head(todo)>>)
                             ELSE printed
               /\ written' = IF r.has_error THEN written ELSE written \cup {Head(todo)}
               /\ n_processed' = n_processed + 1
       ELSE UNCHANGED <<fsman, has_error, printed, written, n_processed>>
    /\ todo' = Tail(todo)
    /\ apc' = "files"
    /\ UNCHANGED <<fsorig, sents_orig, sents_man, sent_aligns, starts, run, segs, valid_src_segs, all_valid,
                   segment_not_found, atag_start, fixed>>

\* Lines 133-149
Finish ==
    /\ UNCHANGED notAtag
    /\ apc = "files" /\ todo = <<>>
    /\ printed' = printed
                  \o (IF has_error THEN << <<"ran twice?">> >> ELSE <<>>)
                  \o (IF ~all_valid THEN << <<"re-align WARNING 1 pairs">> >> ELSE <<>>)
                  \o (IF segment_not_found THEN << <<"segments not found">> >> ELSE <<>>)
                  \o << <<"Finished processing", n_processed>> >>
    /\ apc' = "done"
    /\ UNCHANGED <<fsorig, fsman, sents_orig, sents_man, sent_aligns, starts, run, todo, segs, valid_src_segs,
                   n_processed, all_valid, has_error, segment_not_found, atag_start,
                   written, fixed>>

AtagIdle ==
    /\ fsorig = <<>> /\ fsman = <<>> /\ sents_orig = <<>> /\ sents_man = <<>>
    /\ sent_aligns = <<>> /\ starts = 0 /\ apc = "off" /\ run = 0 /\ todo = <<>>
    /\ segs = <<>> /\ valid_src_segs = <<>> /\ n_processed = 0 /\ all_valid = TRUE
    /\ has_error = FALSE /\ segment_not_found = FALSE /\ printed = <<>>
    /\ atag_start = <<>> /\ written = {} /\ fixed = {}

NextAtag ==
    \/ Construct
    \/ SkipFile
    \/ BeginFile
    \/ SegmentNotFound
    \/ SegmentKeyError
    \/ SegmentValid
    \/ SegmentNotIdentical
    \/ EndFile
    \/ Finish



\* ------------------------------------------------- atag_fix.py: properties

\* The statements below read the files themselves, not the fixer's fields.
SegWords(words, seg_id) == SelectSeq(words, LAMBDA w : w.segId = seg_id)
Texts(words) == [i \in 1..Len(words) |-> words[i].text]
Aligns(file) == {file[i] : i \in {j \in 1..Len(file) : file[j].tag = "align"}}
SAlignOf(file, s) ==
    LET last == CHOOSE i \in 1..Len(file) :
                    /\ file[i].tag = "salign" /\ file[i].src = <<s>>
                    /\ \A j \in (i+1)..Len(file) : ~(file[j].tag = "salign" /\ file[j].src = <<s>>)
    IN file[last].tgt[1]
HasSAlign(file, s) == \E i \in 1..Len(file) : file[i].tag = "salign" /\ file[i].src = <<s>>

\* The align elements of `file` whose out names a word of original source
\* segment s.
AlignsOfSeg(id, file, s) ==
    {el \in Aligns(file) :
        \E p \in 1..Len(SegWords(fsorig[id].src, s)) :
            el.out = <<SrcKey, SegWords(fsorig[id].src, s)[p].id>>}

\* The aligned pair of source segment s is text-identical between the
\* original and the manual version.
TextIdentical(id, s) ==
    /\ SegWords(fsorig[id].src, s) # <<>>
    /\ HasSAlign(atag_start[id], s)
    /\ LET t == SAlignOf(atag_start[id], s)
       IN /\ SegWords(fsorig[id].tgt, t) # <<>>
          /\ Texts(SegWords(fsorig[id].src, s)) = Texts(SegWords(fsman[id].src, s))
          /\ Texts(SegWords(fsorig[id].tgt, t)) = Texts(SegWords(fsman[id].tgt, t))

\* C1: in a file the run wrote, every align element whose out named the p-th
\* word of an original source segment judged valid now has out = source key +
\* id of the p-th word of the manual source segment, and in = target key + id
\* of the word of the manual aligned target segment at the position its
\* original target word had.
AtagC1 ==
    \A id \in written : \A s \in Range(valid_src_segs) :
        LET t == SAlignOf(atag_start[id], s)
            osrc == SegWords(fsorig[id].src, s)
            msrc == SegWords(fsman[id].src, s)
            otgt == SegWords(fsorig[id].tgt, t)
            mtgt == SegWords(fsman[id].tgt, t)
        IN \A p \in 1..Len(osrc) : \A el \in Aligns(atag_start[id]) :
              el.out = <<SrcKey, osrc[p].id>> =>
                \E new \in Aligns(fsman[id].atag) :
                    /\ new.uid = el.uid
                    /\ new.out = <<SrcKey, msrc[p].id>>
                    /\ \E q \in 1..Len(otgt) :
                          /\ otgt[q].id = el.in[2]
                          /\ new.in = <<TgtKey, mtgt[q].id>>

\* C1 witness: a file was written in which an align element of a valid pair
\* got another out than it had, its target word not the first of its segment.
AtagC1Witness ==
    \E id \in written : \E s \in Range(valid_src_segs) :
        \E el \in AlignsOfSeg(id, atag_start[id], s) : \E new \in Aligns(fsman[id].atag) :
            /\ new.uid = el.uid
            /\ new.out # el.out
            /\ el.in[2] # SegWords(fsorig[id].tgt, SAlignOf(atag_start[id], s))[1].id

\* C2: a file the run wrote holds the non-align elements of the file it
\* read, in their order, and as align elements exactly those that belong to
\* text-identical segment pairs, each once; none of a pair reported by
\* WARNING 1.
AtagC2 ==
    \A id \in written :
        LET before == atag_start[id]
            after == fsman[id].atag
        IN /\ SelectSeq(after, LAMBDA el : el.tag # "align")
                = SelectSeq(before, LAMBDA el : el.tag # "align")
           /\ {el.uid : el \in Aligns(after)}
                = UNION {{el.uid : el \in AlignsOfSeg(id, before, s)} :
                            s \in {x \in SegIds : TextIdentical(id, x)}}
           /\ Cardinality(Aligns(after)) = Cardinality({el.uid : el \in Aligns(after)})
           /\ Len(after) = Len(SelectSeq(after, LAMBDA el : el.tag # "align"))
                            + Cardinality(Aligns(after))
           /\ \A s \in SegIds :
                (\E i \in 1..Len(printed) : printed[i] = <<"WARNING 1", id, s>>) =>
                    \A el \in AlignsOfSeg(id, before, s) :
                        el.uid \notin {x.uid : x \in Aligns(after)}

\* C2 witness: a written file that kept an align element of a valid pair and
\* dropped one of a pair reported by WARNING 1.
AtagC2Witness ==
    \E id \in written :
        /\ Aligns(fsman[id].atag) # {}
        /\ \E s \in SegIds :
            /\ \E i \in 1..Len(printed) : printed[i] = <<"WARNING 1", id, s>>
            /\ AlignsOfSeg(id, atag_start[id], s) # {}

\* C3: a file whose align elements an earlier run remapped is reported as a
\* possible error by the next run and is not rewritten by it.
AtagC3 ==
    \A id \in fixed :
        (apc = "done") =>
            /\ \E i \in 1..Len(printed) : printed[i] = <<"POSSIBLE ERROR", id>>
            /\ fsman[id].atag = atag_start[id]

\* C4: a file for which the run reported a possible error is on disk as it
\* was when the run started.
AtagC4 ==
    \A id \in DOMAIN fsman :
        (\E i \in 1..Len(printed) : printed[i] = <<"POSSIBLE ERROR", id>>) =>
            fsman[id].atag = atag_start[id]

\* C4 witness: a possible error was reported after an align element of the
\* file had already been remapped in memory.
AtagC4Witness ==
    \E id \in DOMAIN fsman :
        /\ \E i \in 1..Len(printed) : printed[i] = <<"POSSIBLE ERROR", id>>
        /\ Cardinality(Aligns(fsman[id].atag)) >= 2
        /\ has_error
        /\ apc = "done"

\* A file the loop looks segment s up in does not have it: the original or
\* the manual .src file has no word of s (lines 99, 106), or the original or
\* the manual .tgt file has no word of the segment aligned with s (lines
\* 111, 118).
NotFound(id, s) ==
    \/ SegWords(fsorig[id].src, s) = <<>>
    \/ SegWords(fsman[id].src, s) = <<>>
    \/ /\ HasSAlign(atag_start[id], s)
       /\ \/ SegWords(fsorig[id].tgt, SAlignOf(atag_start[id], s)) = <<>>
          \/ SegWords(fsman[id].tgt, SAlignOf(atag_start[id], s)) = <<>>

\* The segment ids the loop is done with, for the file it is at.
SegsDone(id) ==
    {sents_orig[id][i][1] : i \in 1..Len(sents_orig[id])} \ Range(segs)

\* C10: the run never ends at a segment that is not found in the source or
\* target files: each such segment the loop has passed was reported by
\* WARNING 2 and is not among the valid ones, and the loop went on.
AtagC10 ==
    (apc \in {"segments", "crashed"} /\ todo # <<>>) =>
        LET id == Head(todo)
        IN /\ \A s \in SegsDone(id) :
                NotFound(id, s) =>
                    /\ \E i \in 1..Len(printed) :
                          /\ printed[i][1] = "WARNING 2"
                          /\ printed[i][2] = id /\ printed[i][3] = s
                    /\ s \notin Range(valid_src_segs)
                    /\ segment_not_found
           /\ (apc = "crashed" => ~NotFound(id, Head(segs)))

\* ======================================================================
\*                           fix_tokenization.py
\* ======================================================================

\* A text is the sequence of its characters. The characters of the texts:
\* "<" and "<<" stand for the one character U+003C and the one character
\* U+226A that html.unescape puts for a reference.
NameChars == {"l", "t", "x"}

\* html.entities.html5, the names made of NameChars
html5(name) ==
    CASE name = <<"l", "t">> -> <<"<">>
      [] name = <<"l", "t", ";">> -> <<"<">>
      [] name = <<"l", "l", ";">> -> <<"<<">>
      [] OTHER -> <<>>

\* html._replace_charref on a named reference s (without its "&"): the name
\* if html5 has it, else the longest prefix html5 has, else nothing replaced
replace_charref(s) ==
    IF html5(s) # <<>> THEN html5(s)
    ELSE IF \E x \in 2..(Len(s) - 1) : html5(SubSeq(s, 1, x)) # <<>>
    THEN LET x == CHOOSE y \in 2..(Len(s) - 1) :
                    /\ html5(SubSeq(s, 1, y)) # <<>>
                    /\ \A z \in (y+1)..(Len(s) - 1) : html5(SubSeq(s, 1, z)) = <<>>
         IN html5(SubSeq(s, 1, x)) \o SubSeq(s, x + 1, Len(s))
    ELSE <<"&">> \o s

\* How many characters at the head of s are name characters
RECURSIVE NameLen(_)
NameLen(s) ==
    IF s = <<>> \/ Head(s) \notin NameChars THEN 0 ELSE 1 + NameLen(Tail(s))

\* html.unescape: every match of &(name);? is replaced
RECURSIVE unescape(_)
unescape(s) ==
    IF s = <<>> THEN <<>>
    ELSE IF Head(s) # "&" THEN <<Head(s)>> \o unescape(Tail(s))
    ELSE LET rest == Tail(s)
             n == NameLen(rest)
             m == IF n < Len(rest) /\ rest[n + 1] = ";" THEN n + 1 ELSE n
         IN IF n = 0 THEN <<"&">> \o unescape(rest)
            ELSE replace_charref(SubSeq(rest, 1, m)) \o unescape(SubSeq(rest, m + 1, Len(rest)))

\* ------------------------------------------------------------ input files

\* Word texts as the XML parser hands them over.
TextPool == { <<"x">>, <<"&", "l">>, <<"&", "l", "t">>, <<"&", "l", "t", ";">> }

\* Attributes of a W element as given: with or without a space attribute,
\* id and cur not yet in order.
GivenAttribs == { [id |-> 0, cur |-> 0], [id |-> 0, cur |-> 0, space |-> <<" ">>] }

GivenWords == {[attrib |-> a, text |-> t] : a \in GivenAttribs, t \in TextPool}

ManFiles == UNION {[1..n -> GivenWords] : n \in 0..MaxWords}

\* The original file: what verify_cursor reads of it is its last W.
OrigFiles ==
    {<<>>} \cup {<<[attrib |-> [id |-> 1, cur |-> c], text |-> t]>> :
                    c \in 0..MaxOrigCur, t \in {<<"x">>, <<"&", "l">>}}

\* ------------------------------------------------------- process_man_file

\* (mutant) the cursor advances by the length of the text as parsed
LoopBody_raw_len(st, word) ==
    LET space_len == IF "space" \in DOMAIN word.attrib THEN Len(word.attrib.space) ELSE 0
        diff == Len(word.text)
        text == unescape(word.text)
    IN [word |-> [attrib |-> [word.attrib EXCEPT !.cur = st.curr_cursor + space_len,
                                                 !.id = st.curr_id],
                  text |-> text],
        curr_cursor |-> st.curr_cursor + space_len + diff,
        curr_id |-> st.curr_id + 1,
        char_diff |-> st.char_diff + (diff - Len(text))]

\* Lines 30-46, for one W element
LoopBody(st, word) ==
    LET space_len == IF "space" \in DOMAIN word.attrib THEN Len(word.attrib.space) ELSE 0
        diff == Len(word.text)
        text == unescape(word.text)
    IN [word |-> [attrib |-> [word.attrib EXCEPT !.cur = st.curr_cursor + space_len,
                                                 !.id = st.curr_id],
                  text |-> text],
        curr_cursor |-> st.curr_cursor + space_len + Len(text),
        curr_id |-> st.curr_id + 1,
        char_diff |-> st.char_diff + (diff - Len(text))]

InitTok ==
    /\ orig_file \in OrigFiles
    /\ man_file \in ManFiles
    /\ man_given = man_file
    /\ tpc = "start"
    /\ tok_tree = <<>>
    /\ widx = 0
    /\ curr_cursor = 0
    /\ curr_id = 1
    /\ char_diff = 0
    /\ valid = TRUE
    /\ report = <<>>

TokIdle ==
    /\ orig_file = <<>> /\ man_file = <<>> /\ man_given = <<>> /\ tpc = "off"
    /\ tok_tree = <<>> /\ widx = 0 /\ curr_cursor = 0 /\ curr_id = 1 /\ char_diff = 0
    /\ valid = TRUE /\ report = <<>>

\* Lines 24-28
Parse ==
    /\ UNCHANGED notTok
    /\ tpc = "start"
    /\ tok_tree' = man_file
    /\ widx' = 0
    /\ curr_cursor' = 0
    /\ curr_id' = 1
    /\ char_diff' = 0
    /\ tpc' = "words"
    /\ UNCHANGED <<orig_file, man_file, man_given, valid, report>>

\* Lines 29-46
ProcessWord ==
    /\ UNCHANGED notTok
    /\ tpc = "words"
    /\ widx < Len(tok_tree)
    /\ LET r == LoopBody([curr_cursor |-> curr_cursor, curr_id |-> curr_id,
                          char_diff |-> char_diff], tok_tree[widx + 1])
       IN /\ tok_tree' = [tok_tree EXCEPT ![widx + 1] = r.word]
          /\ curr_cursor' = r.curr_cursor
          /\ curr_id' = r.curr_id
          /\ char_diff' = r.char_diff
    /\ widx' = widx + 1
    /\ UNCHANGED <<orig_file, man_file, man_given, tpc, valid, report>>

\* Lines 48-50: the tree is written and char_diff returned
WriteManFile ==
    /\ UNCHANGED notTok
    /\ tpc = "words"
    /\ widx = Len(tok_tree)
    /\ man_file' = tok_tree
    /\ tpc' = "written"
    /\ UNCHANGED <<orig_file, man_given, tok_tree, widx, curr_cursor, curr_id, char_diff,
                   valid, report>>

\* ----------------------------------------------------------- verify_cursor

Last(s) == s[Len(s)]

\* (mutant) char_diff is left out
verify_cursor_no_diff(o_words, m_words, diff) ==
    LET o_last_word == Last(o_words)
        m_last_word == Last(m_words)
        o_last_cursor == o_last_word.attrib.cur + Len(o_last_word.text)
        m_last_cursor == m_last_word.attrib.cur + Len(m_last_word.text)
    IN [valid |-> o_last_cursor = m_last_cursor,
        report |-> IF o_last_cursor # m_last_cursor
                   THEN << <<"Number of characters differs", o_last_cursor, m_last_cursor>> >>
                   ELSE <<>>]

\* verify_cursor on the W elements of the two files: what it returns and
\* what it prints
verify_cursor(o_words, m_words, diff) ==
    LET o_last_word == Last(o_words)
        m_last_word == Last(m_words)
        o_last_cursor == o_last_word.attrib.cur + Len(o_last_word.text)
        m_last_cursor == m_last_word.attrib.cur + Len(m_last_word.text)
    IN [valid |-> o_last_cursor = m_last_cursor + diff,
        report |-> IF o_last_cursor # m_last_cursor + diff
                   THEN << <<"Number of characters differs", o_last_cursor, m_last_cursor + diff>> >>
                   ELSE <<>>]

\* main, lines 105-108
VerifyCursor ==
    /\ UNCHANGED notTok
    /\ tpc = "written"
    /\ orig_file # <<>> /\ man_file # <<>>
    /\ LET r == verify_cursor(orig_file, man_file, char_diff)
       IN /\ valid' = r.valid
          /\ report' = r.report
    /\ tpc' = "verified"
    /\ UNCHANGED <<orig_file, man_file, man_given, tok_tree, widx, curr_cursor, curr_id, char_diff>>

\* Lines 63-64: [-1] of an empty list raises IndexError
VerifyIndexError ==
    /\ UNCHANGED notTok
    /\ tpc = "written"
    /\ orig_file = <<>> \/ man_file = <<>>
    /\ tpc' = "crashed"
    /\ UNCHANGED <<orig_file, man_file, man_given, tok_tree, widx, curr_cursor, curr_id, char_diff,
                   valid, report>>

NextTok ==
    \/ Parse
    \/ ProcessWord
    \/ WriteManFile
    \/ VerifyCursor
    \/ VerifyIndexError

\* --------------------------------------------- fix_tokenization: properties

SpaceLen(word) == IF "space" \in DOMAIN word.attrib THEN Len(word.attrib.space) ELSE 0

RECURSIVE CharsBefore(_, _)
CharsBefore(words, i) ==
    IF i <= 1 THEN 0
    ELSE CharsBefore(words, i - 1) + SpaceLen(words[i - 1]) + Len(words[i - 1].text)

\* C5: in the file process_man_file wrote, the i-th W has id i, and its cur
\* is the space and text lengths of the words before it plus its own space
\* length.
TokC5 ==
    tpc \in {"written", "verified", "crashed"} =>
        \A i \in 1..Len(man_file) :
            /\ man_file[i].attrib.id = i
            /\ man_file[i].attrib.cur = CharsBefore(man_file, i) + SpaceLen(man_file[i])

\* C5 witness: a written file of three words, the second's text a reference
\* that was unescaped, the third with a space attribute.
TokC5Witness ==
    /\ tpc = "written"
    /\ Len(man_file) >= 3
    /\ man_given[2].text # man_file[2].text
    /\ "space" \in DOMAIN man_file[3].attrib
    /\ man_file[3].attrib.cur = 3

\* The characters of the manually edited file as it was given: spaces and
\* texts, references not yet unescaped.
CharsGiven == CharsBefore(man_given, Len(man_given) + 1)

\* C6: verify_cursor returns true exactly when the original file's final
\* cursor position (cur of its last word plus its text length) is the number
\* of characters of the manually edited file as given, and prints a report
\* exactly when it returns false.
TokC6 ==
    tpc = "verified" =>
        /\ valid <=> (Last(orig_file).attrib.cur + Len(Last(orig_file).text) = CharsGiven)
        /\ valid <=> (report = <<>>)

\* C6 witness: verify_cursor returned true for a file in which unescaping
\* removed characters.
TokC6Witness ==
    /\ tpc = "verified"
    /\ valid
    /\ char_diff > 0


\* ======================================================================
\*                            decrease_segid.py
\* ======================================================================

\* A line is kept as the numbers n of its segId="n" attributes, in order;
\* a number below 0 stands for segId="-1", which the pattern segId="(\d+)"
\* does not match. Segment ids count from 1 (verify_order_lines).
SegIdValues == 1..3
Lines == {<<>>} \cup {<<a>> : a \in SegIdValues} \cup {<<a, b>> : a, b \in SegIdValues}
LineFiles == UNION {[1..n -> Lines] : n \in 0..MaxLines}

\* re.search: the first match of the pattern in the line, <<>> without one
RECURSIVE search(_)
search(line) ==
    IF line = <<>> THEN <<>>
    ELSE IF Head(line) >= 0 THEN <<Head(line)>>
    ELSE search(Tail(line))

\* re.sub: every match of the pattern is replaced
sub(line, n) == [i \in 1..Len(line) |-> IF line[i] >= 0 THEN n ELSE line[i]]

\* (mutant) the line at start_idx itself is not changed
ModLine_gt(line, start, end, increase) ==
    LET match == search(line)
    IN  IF match # <<>>
        THEN LET matched_idx == match[1]
             IN IF matched_idx > start
                THEN IF end = <<>> \/ end[1] < matched_idx
                     THEN IF increase THEN sub(line, matched_idx + 1)
                          ELSE sub(line, matched_idx - 1)
                     ELSE line
                ELSE line
        ELSE line

\* Lines 24-39: what is appended to mod_lines for one line
ModLine(line, start, end, increase) ==
    LET match == search(line)
    IN  IF match # <<>>
        THEN LET matched_idx == match[1]
             IN IF matched_idx >= start
                THEN IF end = <<>> \/ end[1] < matched_idx
                     THEN IF increase THEN sub(line, matched_idx + 1)
                          ELSE sub(line, matched_idx - 1)
                     ELSE line
                ELSE line
        ELSE line

SetMax(S) == CHOOSE m \in S : \A x \in S : x <= m

\* verify_order_lines: the set of indices, and whether all of 1..max are there
idxs(lines) == {search(lines[i])[1] : i \in {j \in 1..Len(lines) : search(lines[j]) # <<>>}}
verify_order_lines(lines) == idxs(lines) = 1..SetMax(idxs(lines))

InitSeg ==
    /\ fin_lines \in LineFiles
    /\ bak = <<>>
    /\ start_idx \in SegIdValues
    /\ end_idx \in {<<>>} \cup {<<n>> : n \in SegIdValues}
    /\ do_increase \in BOOLEAN
    /\ mod_lines = <<>>
    /\ spc = "start"
    /\ indices_present = TRUE

SegIdle ==
    /\ fin_lines = <<>> /\ bak = <<>> /\ start_idx = 0 /\ end_idx = <<>>
    /\ do_increase = FALSE /\ mod_lines = <<>> /\ spc = "off" /\ indices_present = TRUE

\* Lines 17-22
MakeBackup ==
    /\ UNCHANGED notSeg
    /\ spc = "start"
    /\ bak' = fin_lines
    /\ mod_lines' = <<>>
    /\ spc' = "lines"
    /\ UNCHANGED <<fin_lines, start_idx, end_idx, do_increase, indices_present>>

\* Lines 23-39, for one line
ProcessLine ==
    /\ UNCHANGED notSeg
    /\ spc = "lines"
    /\ Len(mod_lines) < Len(fin_lines)
    /\ mod_lines' = Append(mod_lines,
                           ModLine(fin_lines[Len(mod_lines) + 1], start_idx, end_idx, do_increase))
    /\ UNCHANGED <<fin_lines, bak, start_idx, end_idx, do_increase, spc, indices_present>>

\* Lines 41-42
VerifyAndWrite ==
    /\ UNCHANGED notSeg
    /\ spc = "lines"
    /\ Len(mod_lines) = Len(fin_lines)
    /\ idxs(mod_lines) # {}
    /\ indices_present' = verify_order_lines(mod_lines)
    /\ fin_lines' = mod_lines
    /\ spc' = "done"
    /\ UNCHANGED <<bak, start_idx, end_idx, do_increase, mod_lines>>

\* Line 7: max() of an empty set raises ValueError, nothing is written
VerifyValueError ==
    /\ UNCHANGED notSeg
    /\ spc = "lines"
    /\ Len(mod_lines) = Len(fin_lines)
    /\ idxs(mod_lines) = {}
    /\ spc' = "crashed"
    /\ UNCHANGED <<fin_lines, bak, start_idx, end_idx, do_increase, mod_lines, indices_present>>

NextSeg ==
    \/ MakeBackup
    \/ ProcessLine
    \/ VerifyAndWrite
    \/ VerifyValueError

\* ----------------------------------------------- decrease_segid: properties

\* The segId of a line: the one the pattern finds first.
HasSegId(line) == \E i \in 1..Len(line) : line[i] >= 0
SegIdOf(line) == line[CHOOSE i \in 1..Len(line) : line[i] >= 0 /\ \A j \in 1..(i-1) : line[j] < 0]

\* C7: without end_idx, in the file main wrote, a line whose segId was at
\* least start_idx has that segId one lower (one higher with do_increase),
\* and a line whose segId was below start_idx, or that had none, is as it
\* was. (bak is the file as it was.)
SegC7 ==
    (spc = "done" /\ end_idx = <<>>) =>
        /\ Len(fin_lines) = Len(bak)
        /\ \A i \in 1..Len(bak) :
            IF HasSegId(bak[i]) /\ SegIdOf(bak[i]) >= start_idx
            THEN /\ Len(fin_lines[i]) = Len(bak[i])
                 /\ fin_lines[i][1] = SegIdOf(bak[i]) + (IF do_increase THEN 1 ELSE -1)
            ELSE fin_lines[i] = bak[i]

\* C7 witness: a file was written with a line at start_idx lowered and a
\* line below start_idx kept.
SegC7Witness ==
    /\ spc = "done" /\ end_idx = <<>> /\ ~do_increase
    /\ \E i, j \in 1..Len(bak) :
        /\ bak[i] = <<start_idx>> /\ fin_lines[i] = <<start_idx - 1>>
        /\ bak[j] # <<>> /\ bak[j][1] < start_idx /\ fin_lines[j] = bak[j]

\* C8: with end_idx, in the file main wrote, a line whose segId was above
\* end_idx or below start_idx is as it was.
SegC8 ==
    (spc = "done" /\ end_idx # <<>>) =>
        \A i \in 1..Len(bak) :
            (HasSegId(bak[i]) /\ (SegIdOf(bak[i]) > end_idx[1] \/ SegIdOf(bak[i]) < start_idx))
                => fin_lines[i] = bak[i]

\* ======================================================================
\*                             add_lang_tag.py
\* ======================================================================

\* An XML file is kept as the children of the parent of lockWindows (of the
\* root, without one), in order.
El(tag) == [tag |-> tag, attrib |-> <<>>]
Languages(source, target, t) ==
    [tag |-> "Languages", attrib |-> [source |-> source, target |-> target, task |-> t]]

XmlShapes ==
    { <<El("lockWindows"), El("Events")>>,
      <<El("lockWindows"), Languages("de", "en", "postediting"), El("Events")>>,
      <<El("Events")>> }

XmlFiles == {[nested |-> n, xml |-> x] : n \in BOOLEAN, x \in XmlShapes}

\* The command line's choices
SrcLangs == {"en", "fr"}
TgtLangs == {"nl", "de"}
Tasks == {"translating", "copying"}

HasTag(xml, tag) == \E i \in 1..Len(xml) : xml[i].tag = tag
IndexOf(xml, tag) == CHOOSE i \in 1..Len(xml) : xml[i].tag = tag /\ \A j \in 1..(i-1) : xml[j].tag # tag

\* process_file: what it ends with ("skipped", "KeyError" or "written") and
\* the file on disk then
process_file(xml, source, target, t) ==
    IF HasTag(xml, "Languages") THEN [end |-> "skipped", xml |-> xml]
    ELSE IF ~HasTag(xml, "lockWindows") THEN [end |-> "KeyError", xml |-> xml]
    ELSE LET at == IndexOf(xml, "lockWindows")
         IN [end |-> "written",
             xml |-> SubSeq(xml, 1, at) \o <<Languages(source, target, t)>>
                     \o SubSeq(xml, at + 1, Len(xml))]

InitLang ==
    /\ xml_files \in UNION {[1..n -> XmlFiles] : n \in 0..MaxFiles}
    /\ xml_given = xml_files
    /\ fin_kind \in {"dir", "file", "neither"}
    /\ fin_kind = "file" => (Len(xml_files) = 1 /\ ~xml_files[1].nested)
    /\ fin_kind = "neither" => xml_files = <<>>
    /\ src_lang \in SrcLangs
    /\ tgt_lang \in TgtLangs
    /\ task \in Tasks
    /\ recursive \in BOOLEAN
    /\ files = <<>>
    /\ lpc = "start"

LangIdle ==
    /\ xml_files = <<>> /\ xml_given = <<>> /\ fin_kind = "off" /\ src_lang = "en"
    /\ tgt_lang = "nl" /\ task = "translating" /\ recursive = FALSE /\ files = <<>>
    /\ lpc = "off"

LangFrame == <<xml_given, fin_kind, src_lang, tgt_lang, task, recursive>>

\* Lines 54-57: fin is a directory; rglob or glob of *.xml
ListDir ==
    /\ UNCHANGED notLang
    /\ lpc = "start" /\ fin_kind = "dir"
    /\ files' = SelectSeq([i \in 1..Len(xml_files) |-> i],
                          LAMBDA i : recursive \/ ~xml_files[i].nested)
    /\ lpc' = "dir"
    /\ UNCHANGED <<LangFrame, xml_files>>

\* Lines 59-60: process_file(pfin, src_lang, tgt_lang, task)
ProcessDirFile ==
    /\ UNCHANGED notLang
    /\ lpc = "dir" /\ files # <<>>
    /\ LET r == process_file(xml_files[Head(files)].xml, src_lang, tgt_lang, task)
       IN /\ xml_files' = [xml_files EXCEPT ![Head(files)].xml = r.xml]
          /\ lpc' = IF r.end = "KeyError" THEN "crashed" ELSE "dir"
    /\ files' = Tail(files)
    /\ UNCHANGED LangFrame

DirDone ==
    /\ UNCHANGED notLang
    /\ lpc = "dir" /\ files = <<>>
    /\ lpc' = "done"
    /\ UNCHANGED <<LangFrame, xml_files, files>>

\* Lines 61-62: fin is a file; process_file(pin), its keyword defaults
ProcessSingleFile ==
    /\ UNCHANGED notLang
    /\ lpc = "start" /\ fin_kind = "file"
    /\ LET r == process_file(xml_files[1].xml, "en", "nl", "translating")
       IN /\ xml_files' = [xml_files EXCEPT ![1].xml = r.xml]
          /\ lpc' = IF r.end = "KeyError" THEN "crashed" ELSE "done"
    /\ UNCHANGED <<LangFrame, files>>

\* Lines 63-64
NotAFile ==
    /\ UNCHANGED notLang
    /\ lpc = "start" /\ fin_kind = "neither"
    /\ lpc' = "crashed"
    /\ UNCHANGED <<LangFrame, xml_files, files>>

NextLang ==
    \/ ListDir
    \/ ProcessDirFile
    \/ DirDone
    \/ ProcessSingleFile
    \/ NotAFile

\* ------------------------------------------------- add_lang_tag: properties

\* C9: a Languages element that main inserted carries the source language,
\* the target language and the task main was given.
LangC9 ==
    \A i \in 1..Len(xml_files) :
        (HasTag(xml_files[i].xml, "Languages") /\ ~HasTag(xml_given[i].xml, "Languages")) =>
            xml_files[i].xml[IndexOf(xml_files[i].xml, "Languages")]
                = Languages(src_lang, tgt_lang, task)

\* ======================================================================
\*                            specifications
\* ======================================================================

InitAtagFix == AtagOnce /\ TokIdle /\ SegIdle /\ LangIdle
InitAtagFixTwice == AtagTwice /\ TokIdle /\ SegIdle /\ LangIdle
InitFixTokenization == InitTok /\ AtagIdle /\ SegIdle /\ LangIdle
InitDecreaseSegid == InitSeg /\ AtagIdle /\ TokIdle /\ LangIdle
InitAddLangTag == InitLang /\ AtagIdle /\ TokIdle /\ SegIdle

\* atag_fix.py run once
SpecAtagFix == InitAtagFix /\ [][NextAtag]_vars

\* atag_fix.py run, and run again on the same directories
SpecAtagFixTwice == InitAtagFixTwice /\ [][NextAtag]_vars

\* fix_tokenization.py on one pair of files
SpecFixTokenization == InitFixTokenization /\ [][NextTok]_vars

\* decrease_segid.py on one file
SpecDecreaseSegid == InitDecreaseSegid /\ [][NextSeg]_vars

\* add_lang_tag.py on one input
SpecAddLangTag == InitAddLangTag /\ [][NextLang]_vars

\* Any one of the scripts
Init == InitAtagFix \/ InitFixTokenization \/ InitDecreaseSegid \/ InitAddLangTag
Next == NextAtag \/ NextTok \/ NextSeg \/ NextLang
Spec == Init /\ [][Next]_vars

====
